---- MODULE Spec2Model ----
(***************************************************************************)
(* Model of the dependency-learner proxy-wasm filter                       *)
(* (components/dependency-learner/src/lib.rs).                             *)
(*                                                                         *)
(* DependencyLearnerRoot holds the parsed configuration and creates one    *)
(* DependencyLearner per HTTP stream.  The host drives each learner with   *)
(* on_http_request_headers / on_http_response_headers callbacks.           *)
(*                                                                         *)
(* Representation:                                                         *)
(*   Option<T>   a sequence of length 0 (None) or 1 (Some(v))              *)
(*   Vec<u8>     a sequence of integers 0..255                             *)
(*   String      the byte sequence of its UTF-8 encoding                   *)
(*   JSON text   the sequence of its lexical tokens (no whitespace)        *)
(***************************************************************************)
EXTENDS Integers, Sequences, FiniteSets, TLC

-----------------------------------------------------------------------------
(* Bounds of the model.                                                    *)

\* number of HTTP streams the host opens
MaxContexts == 2
\* number of host calls in one run
MaxCalls == 4

-----------------------------------------------------------------------------
(* Option<T>                                                               *)

None == <<>>
Some(v) == <<v>>
is_some(o) == Len(o) = 1
unwrap(o) == o[1]
unwrap_or(o, d) == IF is_some(o) THEN o[1] ELSE d

-----------------------------------------------------------------------------
(* String::from_utf8: the bytes are accepted iff they are well-formed      *)
(* UTF-8; the String then owns exactly those bytes.                        *)

IsCont(b) == b >= 128 /\ b <= 191

\* length of the well-formed UTF-8 sequence starting at raw[i], 0 if none
Utf8SeqLen(raw, i) ==
    LET n == Len(raw)
        b == raw[i]
        c(k) == IF i + k <= n THEN raw[i + k] ELSE 0
    IN  IF b <= 127 THEN 1
        ELSE IF b >= 194 /\ b <= 223
            THEN IF IsCont(c(1)) THEN 2 ELSE 0
        ELSE IF b = 224
            THEN IF c(1) >= 160 /\ c(1) <= 191 /\ IsCont(c(2)) THEN 3 ELSE 0
        ELSE IF b = 237
            THEN IF c(1) >= 128 /\ c(1) <= 159 /\ IsCont(c(2)) THEN 3 ELSE 0
        ELSE IF b >= 225 /\ b <= 239
            THEN IF IsCont(c(1)) /\ IsCont(c(2)) THEN 3 ELSE 0
        ELSE IF b = 240
            THEN IF c(1) >= 144 /\ c(1) <= 191 /\ IsCont(c(2)) /\ IsCont(c(3))
                 THEN 4 ELSE 0
        ELSE IF b >= 241 /\ b <= 243
            THEN IF IsCont(c(1)) /\ IsCont(c(2)) /\ IsCont(c(3)) THEN 4 ELSE 0
        ELSE IF b = 244
            THEN IF c(1) >= 128 /\ c(1) <= 143 /\ IsCont(c(2)) /\ IsCont(c(3))
                 THEN 4 ELSE 0
        ELSE 0

RECURSIVE IsUtf8From(_, _)
IsUtf8From(raw, i) ==
    IF i > Len(raw) THEN TRUE
    ELSE LET k == Utf8SeqLen(raw, i)
         IN  IF k = 0 THEN FALSE ELSE IsUtf8From(raw, i + k)

\* String::from_utf8(raw).ok()
from_utf8_ok(raw) == IF IsUtf8From(raw, 1) THEN Some(raw) ELSE None

\* Option<Vec<u8>>::and_then(|raw| String::from_utf8(raw).ok())
decode_property(prop) == IF is_some(prop) THEN from_utf8_ok(unwrap(prop)) ELSE None

-----------------------------------------------------------------------------
(* DependencyLearnerConfig and its serde_json deserialisation.             *)

\* DependencyLearnerConfig::default()
DefaultConfig == [response_header |-> None]

Tok(k) == [k |-> k, v |-> ""]
StrTok(s) == [k |-> "str", v |-> s]
LBrace == Tok("{")
RBrace == Tok("}")
LBracket == Tok("[")
RBracket == Tok("]")
Colon == Tok(":")
Comma == Tok(",")
NullTok == Tok("null")
TrueTok == Tok("true")
NumTok == Tok("num")

IsScalar(t) == t.k \in {"str", "null", "true", "num"}
TokAt(toks, i) == IF i >= 1 /\ i <= Len(toks) THEN toks[i] ELSE Tok("eof")

\* serde::de::IgnoredAny: index just after the JSON value starting at i,
\* 0 when there is no well-formed value there
RECURSIVE SkipValue(_, _), SkipMembers(_, _), SkipElems(_, _)
SkipValue(toks, i) ==
    LET t == TokAt(toks, i)
    IN  IF IsScalar(t) THEN i + 1
        ELSE IF t.k = "{"
            THEN IF TokAt(toks, i + 1).k = "}" THEN i + 2
                 ELSE SkipMembers(toks, i + 1)
        ELSE IF t.k = "["
            THEN IF TokAt(toks, i + 1).k = "]" THEN i + 2
                 ELSE SkipElems(toks, i + 1)
        ELSE 0
\* members of an object, i at a key; returns index after the closing brace
SkipMembers(toks, i) ==
    IF TokAt(toks, i).k # "str" \/ TokAt(toks, i + 1).k # ":" THEN 0
    ELSE LET j == SkipValue(toks, i + 2)
         IN  IF j = 0 THEN 0
             ELSE IF TokAt(toks, j).k = "}" THEN j + 1
             ELSE IF TokAt(toks, j).k = "," THEN SkipMembers(toks, j + 1)
             ELSE 0
\* elements of an array, i at a value; returns index after the closing bracket
SkipElems(toks, i) ==
    LET j == SkipValue(toks, i)
    IN  IF j = 0 THEN 0
        ELSE IF TokAt(toks, j).k = "]" THEN j + 1
        ELSE IF TokAt(toks, j).k = "," THEN SkipElems(toks, j + 1)
        ELSE 0

ParseErr == [ok |-> FALSE, config |-> DefaultConfig]
ParseOk(field) == [ok |-> TRUE, config |-> [response_header |-> field]]

\* Option<String> from one token: null -> None, string -> Some
IsOptString(t) == t.k \in {"str", "null"}
OptString(t) == IF t.k = "str" THEN Some(t.v) ELSE None

\* derived visit_map: i at a key, seen = response_header already read,
\* field = its value so far
RECURSIVE VisitMap(_, _, _, _)
VisitMap(toks, i, seen, field) ==
    IF TokAt(toks, i).k # "str" \/ TokAt(toks, i + 1).k # ":" THEN ParseErr
    ELSE LET key == TokAt(toks, i).v
             val == TokAt(toks, i + 2)
             isField == key = "response_header"
             j == IF isField
                     THEN IF ~seen /\ IsOptString(val) THEN i + 3 ELSE 0
                     ELSE SkipValue(toks, i + 2)
             seen2 == seen \/ isField
             field2 == IF isField THEN OptString(val) ELSE field
         IN  IF j = 0 THEN ParseErr
             ELSE IF TokAt(toks, j).k = "}"
                 THEN IF j = Len(toks) THEN ParseOk(field2) ELSE ParseErr
             ELSE IF TokAt(toks, j).k = ","
                 THEN VisitMap(toks, j + 1, seen2, field2)
             ELSE ParseErr

\* serde_json::from_slice::<DependencyLearnerConfig>
from_slice(toks) ==
    LET t == TokAt(toks, 1)
    IN  IF t.k = "{"
            THEN IF TokAt(toks, 2).k = "}"
                 THEN IF Len(toks) = 2 THEN ParseOk(None) ELSE ParseErr
                 ELSE VisitMap(toks, 2, FALSE, None)
        ELSE IF t.k = "["
            \* derived visit_seq: exactly one Option<String> element
            THEN IF IsOptString(TokAt(toks, 2)) /\ TokAt(toks, 3).k = "]"
                    /\ Len(toks) = 3
                 THEN ParseOk(OptString(TokAt(toks, 2)))
                 ELSE ParseErr
        ELSE ParseErr

-----------------------------------------------------------------------------
(* Inputs the host supplies.                                               *)

\* "d\u00e9" (two-byte e-acute), "e", "u", "v", "old", "a", "/"
Str_d == <<100, 195, 169>>
Str_e == <<101>>
Str_u == <<117>>
Str_v == <<118>>
Str_old == <<111, 108, 100>>
Str_a == <<97>>
Str_slash == <<47>>
\* 0xFF never occurs in UTF-8; 0xC3 alone is a truncated two-byte sequence
Bad_ff == <<255>>
Bad_trunc == <<117, 195>>

\* connection.mtls
MtlsProps == {None, Some(<<1>>)}
\* connection.uri_san_peer_certificate
CertProps == {None, Some(Str_d), Some(Bad_ff)}
\* xds.cluster_name
ClusterProps == {None, Some(Str_u), Some(Bad_trunc)}
Props == [mtls : MtlsProps, cert : CertProps, cluster : ClusterProps]

\* request header map, as far as the filter reads it
RequestHeaders == [authority : {None, Some(Str_a)}, path : {None, Some(Str_slash)}]

HeaderName == "x-dep-edge"
\* response header map as it arrives from the upstream
UpstreamResponses == {<<>>, << <<HeaderName, Str_old>> >>}

\* plugin configuration payloads
Payloads ==
    { <<LBrace, RBrace>>,
      <<LBrace, StrTok("response_header"), Colon, StrTok(HeaderName), RBrace>>,
      <<LBrace, StrTok("other"), Colon, LBracket, NumTok, RBracket, Comma,
        StrTok("response_header"), Colon, StrTok(HeaderName), RBrace>>,
      <<LBracket, StrTok(HeaderName), RBracket>>,
      <<LBrace, StrTok("response_header"), Colon, NumTok, RBrace>>,
      <<LBrace, StrTok("response_header"), Colon, StrTok(HeaderName), Comma,
        StrTok("response_header"), Colon, StrTok(HeaderName), RBrace>>,
      <<LBrace, StrTok("response_header"), Colon, StrTok(HeaderName)>> }
PluginConfigurations == {None} \cup {Some(p) : p \in Payloads}

-----------------------------------------------------------------------------
(* DependencyLearnerRoot                                                   *)

\* DependencyLearnerRoot::new
NewRoot == [config |-> DefaultConfig]

\* a line written through the log macros when cond holds
LogIf(cond, level, msg) == IF cond THEN <<[level |-> level, msg |-> msg]>> ELSE <<>>

\* the line both root callbacks trace first
Initiating == LogIf(TRUE, "trace", "Initiating DependencyLearner")

\* error!("Failed to parse config: {}", err), without serde_json's text
ParseFailure == LogIf(TRUE, "error", "Failed to parse config")

\* RootContext::on_vm_start
on_vm_start(self) == [self |-> self, ret |-> TRUE, logs |-> Initiating]

\* on_configure storing the parse result before looking at it
on_configure_partial(self, raw) ==
    IF is_some(raw)
    THEN LET r == from_slice(unwrap(raw))
         IN  [self |-> [self EXCEPT !.config = r.config], ret |-> r.ok,
              logs |-> Initiating \o (IF r.ok THEN <<>> ELSE ParseFailure)]
    ELSE [self |-> self, ret |-> TRUE, logs |-> Initiating]

\* on_configure falling back to the default when no bytes are supplied
on_configure_reset(self, raw) ==
    IF is_some(raw)
    THEN LET r == from_slice(unwrap(raw))
         IN  IF r.ok
             THEN [self |-> [self EXCEPT !.config = r.config], ret |-> TRUE,
                   logs |-> Initiating]
             ELSE [self |-> self, ret |-> FALSE,
                   logs |-> Initiating \o ParseFailure]
    ELSE [self |-> [self EXCEPT !.config = DefaultConfig], ret |-> TRUE,
          logs |-> Initiating]

\* RootContext::on_configure; raw is get_plugin_configuration()
on_configure(self, raw) ==
    IF is_some(raw)
    THEN LET r == from_slice(unwrap(raw))
         IN  IF r.ok
             THEN [self |-> [self EXCEPT !.config = r.config], ret |-> TRUE,
                   logs |-> Initiating]
             ELSE [self |-> self, ret |-> FALSE,
                   logs |-> Initiating \o ParseFailure]
    ELSE [self |-> self, ret |-> TRUE, logs |-> Initiating]

\* DependencyLearner::new
NewLearner(config) ==
    [ notified |-> FALSE,
      path |-> None,
      authority |-> None,
      upstream_cluster |-> None,
      downstream_peer_certificate |-> None,
      config |-> config ]

\* a learner built with the default configuration instead of the root's
create_http_context_default(self) == NewLearner(DefaultConfig)

\* RootContext::create_http_context
create_http_context(self) == NewLearner(self.config)

-----------------------------------------------------------------------------
(* DependencyLearner                                                       *)

\* assignment of the freshly read value, Some or None
replace_always(old, new) == new

\* if let Some(x) = new { field.replace(x) }
replace_if_some(old, new) == IF is_some(new) THEN new ELSE old

\* the header block awaited with Action::Pause
on_http_request_headers_pause(self, headers, end_of_stream) ==
    IF ~end_of_stream
    THEN [self |-> self, action |-> "Pause"]
    ELSE [self |-> [self EXCEPT
                      !.authority = replace_if_some(@, headers.authority),
                      !.path = replace_if_some(@, headers.path)],
          action |-> "Continue"]

\* the end_of_stream test left out
on_http_request_headers_any_frame(self, headers, end_of_stream) ==
    [self |-> [self EXCEPT
                 !.authority = replace_if_some(@, headers.authority),
                 !.path = replace_if_some(@, headers.path)],
     action |-> "Continue"]

\* HttpContext::on_http_request_headers
on_http_request_headers(self, headers, end_of_stream) ==
    IF ~end_of_stream
    THEN [self |-> self, action |-> "Continue"]
    ELSE [self |-> [self EXCEPT
                      !.authority = replace_if_some(@, headers.authority),
                      !.path = replace_if_some(@, headers.path)],
          action |-> "Continue"]

\* the guard left out
already_notified_never(self) == FALSE

\* the guard at the top of on_http_response_headers
already_notified(self) == self.notified

\* connection.mtls is exactly one non-zero byte
is_mtls(prop) ==
    IF is_some(prop)
    THEN Len(unwrap(prop)) = 1 /\ unwrap(prop)[1] > 0
    ELSE FALSE

\* emission only once the upstream is known
should_emit_upstream_only(self, end_of_stream) == is_some(self.upstream_cluster)

\* emission only at the end of the header block
should_emit_final_only(self, end_of_stream) == end_of_stream

\* the emission condition
should_emit(self, end_of_stream) == is_some(self.upstream_cluster) \/ end_of_stream

\* " -> " and "?"
Arrow == <<32, 45, 62, 32>>
Placeholder == <<63>>
\* the two arguments of format! exchanged
format_edge_swapped(downstream, upstream) ==
    unwrap_or(upstream, Placeholder) \o Arrow \o unwrap_or(downstream, Placeholder)

\* format!("{} -> {}", downstream.unwrap_or("?"), upstream.unwrap_or("?"))
format_edge(downstream, upstream) ==
    unwrap_or(downstream, Placeholder) \o Arrow \o unwrap_or(upstream, Placeholder)

\* HttpContext::add_http_response_header: the host appends one entry to the
\* response header map; entries already there are kept
add_http_response_header(headers, name, value) == Append(headers, <<name, value>>)

\* the header never written
publish_never(config, headers, edge) == headers

\* if let Some(h) = config.response_header { add_http_response_header(h, edge) }
publish(config, headers, edge) ==
    IF is_some(config.response_header)
    THEN add_http_response_header(headers, unwrap(config.response_header), edge)
    ELSE headers

\* the peer certificate ignored on a connection that is not mTLS
peer_certificate_mtls_only(props) ==
    IF is_mtls(props.mtls) THEN decode_property(props.cert) ELSE None

\* get_property(["connection", "uri_san_peer_certificate"]) decoded; the
\* connection.mtls property plays no part in it
peer_certificate(props) == decode_property(props.cert)

\* the request's authority standing in for the peer certificate
edge_of_authority(self) == format_edge(self.authority, self.upstream_cluster)

\* the upstream side always rendered as unknown
edge_of_downstream_only(self) == format_edge(self.downstream_peer_certificate, None)

\* the edge is built from the two identities only
edge_of(self) == format_edge(self.downstream_peer_certificate, self.upstream_cluster)

\* HttpContext::on_http_response_headers; headers is the response header map
on_http_response_headers(self, props, headers, end_of_stream) ==
    IF already_notified(self)
    THEN [self |-> self, headers |-> headers, logs |-> <<>>, edge |-> None,
          action |-> "Continue"]
    ELSE
    LET cert == peer_certificate(props)
        cluster == decode_property(props.cluster)
        s1 == [self EXCEPT
                 !.downstream_peer_certificate = replace_if_some(@, cert),
                 !.upstream_cluster = replace_if_some(@, cluster)]
        warns == LogIf(~is_mtls(props.mtls), "warn", "connection not mTLS")
                 \o LogIf(is_some(props.cert) /\ ~is_some(cert), "warn",
                          "connection.uri_san_peer_certificate is not utf8")
                 \o LogIf(is_some(props.cluster) /\ ~is_some(cluster), "warn",
                          "xds.cluster_name is not utf8")
        edge == edge_of(s1)
    IN  IF should_emit(s1, end_of_stream)
        THEN [self |-> [s1 EXCEPT !.notified = TRUE],
              headers |-> publish(s1.config, headers, edge),
              logs |-> warns \o LogIf(TRUE, "trace", "Dependency learned"),
              edge |-> Some(edge),
              action |-> "Continue"]
        ELSE [self |-> s1, headers |-> headers, logs |-> warns, edge |-> None,
              action |-> "Continue"]

-----------------------------------------------------------------------------
(* The host: one root context, then any interleaving of configuration,     *)
(* stream creation and header callbacks.                                   *)

VARIABLES
    root,      \* the DependencyLearnerRoot
    http,      \* http[c]: the DependencyLearner of stream c
    response,  \* response[c]: response header map of stream c
    learned,   \* learned[c]: edges traced as "Dependency learned" on stream c
    added,     \* added[c]: (name, value) pairs stream c's filter added
    accepted,  \* configuration parsed from the last payload that parsed
    last,      \* the most recent host call and what it produced
    calls      \* number of host calls so far

vars == <<root, http, response, learned, added, accepted, last, calls>>

NoProps == [mtls |-> None, cert |-> None, cluster |-> None]
NoHeaders == [authority |-> None, path |-> None]
Call(op, ctx, eos, raw, props, hdrs, ret, edge, logs) ==
    [op |-> op, ctx |-> ctx, end_of_stream |-> eos, raw |-> raw, props |-> props,
     headers |-> hdrs, ret |-> ret, edge |-> edge, logs |-> logs]

Init ==
    /\ root = NewRoot
    /\ http = <<>>
    /\ response = <<>>
    /\ learned = <<>>
    /\ added = <<>>
    /\ accepted = DefaultConfig
    /\ last = Call("new", 0, FALSE, None, NoProps, NoHeaders, "", None, <<>>)
    /\ calls = 0

\* the configuration shared by reference with the learners already created
Configure_shared(raw) ==
    LET r == on_configure(root, raw)
        parsed == IF is_some(raw) THEN from_slice(unwrap(raw)) ELSE ParseErr
    IN  /\ calls < MaxCalls
        /\ root' = r.self
        /\ http' = [c \in DOMAIN http |-> [http[c] EXCEPT !.config = r.self.config]]
        /\ accepted' = IF parsed.ok THEN parsed.config ELSE accepted
        /\ last' = Call("on_configure", 0, FALSE, raw, NoProps, NoHeaders,
                        IF r.ret THEN "true" ELSE "false", None, r.logs)
        /\ calls' = calls + 1
        /\ UNCHANGED <<response, learned, added>>

VmStart ==
    LET r == on_vm_start(root)
    IN  /\ calls < MaxCalls
        /\ root' = r.self
        /\ last' = Call("on_vm_start", 0, FALSE, None, NoProps, NoHeaders,
                        IF r.ret THEN "true" ELSE "false", None, r.logs)
        /\ calls' = calls + 1
        /\ UNCHANGED <<http, response, learned, added, accepted>>

Configure(raw) ==
    LET r == on_configure(root, raw)
        parsed == IF is_some(raw) THEN from_slice(unwrap(raw)) ELSE ParseErr
    IN  /\ calls < MaxCalls
        /\ root' = r.self
        /\ accepted' = IF parsed.ok THEN parsed.config ELSE accepted
        /\ last' = Call("on_configure", 0, FALSE, raw, NoProps, NoHeaders,
                        IF r.ret THEN "true" ELSE "false", None, r.logs)
        /\ calls' = calls + 1
        /\ UNCHANGED <<http, response, learned, added>>

CreateHttpContext(upstream) ==
    /\ calls < MaxCalls
    /\ Len(http) < MaxContexts
    /\ http' = Append(http, create_http_context(root))
    /\ response' = Append(response, upstream)
    /\ learned' = Append(learned, <<>>)
    /\ added' = Append(added, <<>>)
    /\ last' = Call("create_http_context", Len(http) + 1, FALSE, None, NoProps,
                    NoHeaders, "", None, <<>>)
    /\ calls' = calls + 1
    /\ UNCHANGED <<root, accepted>>

RequestHeadersEvent(c, headers, eos) ==
    LET r == on_http_request_headers(http[c], headers, eos)
    IN  /\ calls < MaxCalls
        /\ http' = [http EXCEPT ![c] = r.self]
        /\ last' = Call("on_http_request_headers", c, eos, None, NoProps, headers,
                        r.action, None, <<>>)
        /\ calls' = calls + 1
        /\ UNCHANGED <<root, response, learned, added, accepted>>

ResponseHeadersEvent(c, props, eos) ==
    LET r == on_http_response_headers(http[c], props, response[c], eos)
    IN  /\ calls < MaxCalls
        /\ http' = [http EXCEPT ![c] = r.self]
        /\ response' = [response EXCEPT ![c] = r.headers]
        /\ learned' = [learned EXCEPT ![c] = @ \o r.edge]
        /\ added' = [added EXCEPT ![c] =
                       @ \o SubSeq(r.headers, Len(response[c]) + 1, Len(r.headers))]
        /\ last' = Call("on_http_response_headers", c, eos, None, props, NoHeaders,
                        r.action, r.edge, r.logs)
        /\ calls' = calls + 1
        /\ UNCHANGED <<root, accepted>>

Next ==
    \/ VmStart
    \/ \E raw \in PluginConfigurations : Configure(raw)
    \/ \E upstream \in UpstreamResponses : CreateHttpContext(upstream)
    \/ \E c \in DOMAIN http, headers \in RequestHeaders, eos \in BOOLEAN :
          RequestHeadersEvent(c, headers, eos)
    \/ \E c \in DOMAIN http, props \in Props, eos \in BOOLEAN :
          ResponseHeadersEvent(c, props, eos)

Spec == Init /\ [][Next]_vars

\* The same host with streams whose cluster may carry any name, also the
\* names "?" and "": only streams are opened and response headers delivered.
NamedClusterProps == ClusterProps \cup {Some(Placeholder), Some(<<>>)}
NamedProps == [mtls : {None}, cert : CertProps, cluster : NamedClusterProps]

NextClusterNames ==
    \/ \E upstream \in UpstreamResponses : CreateHttpContext(upstream)
    \/ \E c \in DOMAIN http, props \in NamedProps, eos \in BOOLEAN :
          ResponseHeadersEvent(c, props, eos)

SpecClusterNames == Init /\ [][NextClusterNames]_vars

\* The same host with connections of every mTLS kind: the property absent,
\* a zero byte, a non-zero byte, not a single byte.  A header name may be
\* configured, streams are opened and response headers delivered.
AllMtls == {None, Some(<<0>>), Some(<<7>>), Some(<<1, 1>>)}
MtlsHostProps == [mtls : AllMtls, cert : CertProps, cluster : {None, Some(Str_u)}]
NamedHeaderPayload ==
    <<LBrace, StrTok("response_header"), Colon, StrTok(HeaderName), RBrace>>

NextMtls ==
    \/ \E raw \in {Some(NamedHeaderPayload)} : Configure(raw)
    \/ \E upstream \in UpstreamResponses : CreateHttpContext(upstream)
    \/ \E c \in DOMAIN http, props \in MtlsHostProps, eos \in BOOLEAN :
          ResponseHeadersEvent(c, props, eos)

SpecMtls == Init /\ [][NextMtls]_vars

-----------------------------------------------------------------------------
(* Properties.                                                             *)

IsResponseEvent(call) == call.op = "on_http_response_headers"
IsRequestEvent(call) == call.op = "on_http_request_headers"
IsConfigure(call) == call.op = "on_configure"
Emitted(call) == IsResponseEvent(call) /\ is_some(call.edge)

\* a side of the edge as rendered: the identity, or "?" when unset
Side(identity) == IF identity = <<>> THEN <<63>> ELSE identity[1]
\* d ++ " -> " ++ u
Rendered(d, u) == d \o <<32, 45, 62, 32>> \o u
\* the property bytes are present and well-formed UTF-8
ValidText(prop) == prop # <<>> /\ from_utf8_ok(prop[1]) # <<>>

\* C1: on every stream, whatever events were delivered, "Dependency learned"
\* is traced at most once and the filter adds at most one response header.
C1_EmittedAtMostOnce ==
    \A c \in DOMAIN http : Len(learned[c]) <= 1 /\ Len(added[c]) <= 1

\* a final response-headers event arrives after the edge was emitted and
\* published, and emits nothing
C1_Witness ==
    /\ IsResponseEvent(last) /\ last.end_of_stream /\ last.edge = None
    /\ Len(learned[last.ctx]) = 1 /\ Len(added[last.ctx]) = 1

\* C2: after a response-headers event with end_of_stream = true the learner
\* is notified and exactly one edge has been emitted on its stream.
C2_FinalFrameEmits ==
    (IsResponseEvent(last) /\ last.end_of_stream)
        => /\ http[last.ctx].notified
           /\ Len(learned[last.ctx]) = 1

\* a final frame on which neither identity decodes still emits "? -> ?"
C2_Witness ==
    /\ IsResponseEvent(last) /\ last.end_of_stream
    /\ last.props.cert = Some(Bad_ff) /\ last.props.cluster = Some(Bad_trunc)
    /\ last.edge = Some(<<63, 32, 45, 62, 32, 63>>)
    /\ http[last.ctx].notified

\* C3: a response-headers event on a learner that is not yet notified emits
\* in that event iff xds.cluster_name is valid text or end_of_stream is true;
\* if it does not emit, notified stays false and nothing is traced.
C3_EmitIffResolvedOrFinal ==
    [][(IsResponseEvent(last') /\ last'.ctx \in DOMAIN http
            /\ ~http[last'.ctx].notified)
        => LET c == last'.ctx
               now == ValidText(last'.props.cluster) \/ last'.end_of_stream
           IN  /\ is_some(last'.edge) <=> now
               /\ http'[c].notified <=> now
               /\ Len(learned'[c]) = Len(learned[c]) + (IF now THEN 1 ELSE 0)
               /\ ~now => added'[c] = added[c]]_vars

\* early emit: upstream resolved on a non-final frame, edge "dé -> u"
C3_Witness ==
    /\ Emitted(last) /\ ~last.end_of_stream
    /\ last.props.cluster = Some(Str_u)
    /\ last.edge = Some(Rendered(Str_d, Str_u))
    /\ http[last.ctx].notified

\* C4: every emitted edge is the learner's downstream identity, " -> ", its
\* upstream identity, an unset side rendered as "?".
C4_EdgeFormat ==
    \A c \in DOMAIN http :
        learned[c] # <<>> =>
            learned[c][1] = Rendered(Side(http[c].downstream_peer_certificate),
                                     Side(http[c].upstream_cluster))

\* the shape "d -> ?": downstream known, upstream unset
C4_Witness ==
    \E c \in DOMAIN http :
        /\ http[c].downstream_peer_certificate = Some(Str_d)
        /\ http[c].upstream_cluster = None
        /\ learned[c] = << <<100, 195, 169, 32, 45, 62, 32, 63>> >>

\* C5 as claimed: an emitting event that reads an absent or undecodable peer
\* certificate emits "?" as the downstream side.
C5_UndecodableCertGivesPlaceholder ==
    (Emitted(last) /\ ~ValidText(last.props.cert))
        => unwrap(last.edge) = Rendered(<<63>>, Side(http[last.ctx].upstream_cluster))

\* C5 amended: an emitting event that reads an absent or undecodable peer
\* certificate emits, as the downstream side, the downstream identity stored
\* before the event: "?" if none was stored, else the stored certificate.
C5_UndecodableCertKeepsStored ==
    [][(Emitted(last') /\ last'.ctx \in DOMAIN http /\ ~ValidText(last'.props.cert))
        => LET c == last'.ctx
           IN  /\ unwrap(last'.edge)
                    = Rendered(Side(http[c].downstream_peer_certificate),
                               Side(http'[c].upstream_cluster))
               /\ http'[c].downstream_peer_certificate
                    = http[c].downstream_peer_certificate]_vars

\* an emitting event reads an undecodable certificate, yet the edge carries
\* the certificate of an earlier event
C5_Witness ==
    /\ Emitted(last) /\ last.props.cert = Some(Bad_ff)
    /\ last.edge = Some(Rendered(Str_d, <<63>>))

\* C6 as claimed: once notified, no event changes the learner or emits.
C6_NotifiedFreezesState ==
    [][\A c \in DOMAIN http :
          http[c].notified =>
              /\ http'[c] = http[c]
              /\ learned'[c] = learned[c]
              /\ added'[c] = added[c]
              /\ response'[c] = response[c]]_vars

\* payloads of Payloads that serde_json rejects for DependencyLearnerConfig
MalformedPayloads ==
    { <<LBrace, StrTok("response_header"), Colon, NumTok, RBrace>>,
      <<LBrace, StrTok("response_header"), Colon, StrTok(HeaderName), Comma,
        StrTok("response_header"), Colon, StrTok(HeaderName), RBrace>>,
      <<LBrace, StrTok("response_header"), Colon, StrTok(HeaderName)>> }

\* C7: on_configure with a payload that fails to parse returns false and
\* leaves the root's configuration as it was; the root's configuration is
\* always the one parsed from the last payload that parsed (the default if
\* none), and a learner created afterwards carries it.
C7_MalformedConfigRejected ==
    [][/\ (IsConfigure(last') /\ last'.raw \in {Some(p) : p \in MalformedPayloads})
            => (last'.ret = "false" /\ root' = root)
       /\ root'.config = accepted'
       /\ last'.op = "create_http_context"
            => http'[last'.ctx].config = accepted']_vars

\* a malformed payload is rejected after a header name had been configured,
\* and the name is still configured
C7_Witness ==
    /\ IsConfigure(last) /\ last.raw \in {Some(p) : p \in MalformedPayloads}
    /\ last.ret = "false"
    /\ root.config.response_header = Some(HeaderName)

\* C8 as claimed: after on_configure with no bytes the call has succeeded and
\* the root's configuration is the default.
C8_NoBytesGivesDefault ==
    (IsConfigure(last) /\ last.raw = None)
        => (last.ret = "true" /\ root.config = DefaultConfig)

\* C8 amended: on_configure with no bytes succeeds and leaves the root's
\* configuration as it was, which is the one parsed from the last payload
\* that parsed, the default only if there was none.
C8_NoBytesKeepsConfig ==
    [][(IsConfigure(last') /\ last'.raw = None)
        => /\ last'.ret = "true"
           /\ root' = root
           /\ root'.config = accepted]_vars

\* no bytes supplied after a header name had been configured: the name stays
C8_Witness ==
    /\ IsConfigure(last) /\ last.raw = None /\ last.ret = "true"
    /\ root.config.response_header = Some(HeaderName)

\* C9: an emitting event adds a response header iff the learner's
\* configuration names one, and then it is that name with the edge as value;
\* the edge is traced and notified set either way; no other event adds a
\* header, so a learner without a configured name never adds one.
C9_HeaderIffConfigured ==
    [][/\ (Emitted(last') /\ last'.ctx \in DOMAIN http)
            => LET c == last'.ctx
                   h == http[c].config.response_header
                   edge == unwrap(last'.edge)
               IN  /\ added'[c] = IF h = None THEN <<>> ELSE << <<unwrap(h), edge>> >>
                   /\ response'[c] = response[c] \o added'[c]
                   /\ learned'[c] = <<edge>>
                   /\ http'[c].notified
       /\ \A c \in DOMAIN http :
            (~Emitted(last') \/ last'.ctx # c)
                => (added'[c] = added[c] /\ response'[c] = response[c])
       /\ \A c \in DOMAIN http' :
            http'[c].config.response_header = None => added'[c] = <<>>]_vars

\* no header configured: the edge is traced and notified set, nothing added
C9_Witness ==
    /\ Emitted(last)
    /\ http[last.ctx].config.response_header = None
    /\ http[last.ctx].notified
    /\ learned[last.ctx] = <<unwrap(last.edge)>>
    /\ added[last.ctx] = <<>>

\* C10 as claimed: after an emitting event with header name h configured,
\* the response carries h with the edge as its value and no other value.
C10_HeaderHoldsOnlyTheEdge ==
    (Emitted(last) /\ is_some(http[last.ctx].config.response_header))
        => LET c == last.ctx
               h == unwrap(http[c].config.response_header)
           IN  /\ \E i \in DOMAIN response[c] : response[c][i] = <<h, unwrap(last.edge)>>
               /\ \A i \in DOMAIN response[c] :
                    response[c][i][1] = h => response[c][i][2] = unwrap(last.edge)

\* C11: every request-headers and response-headers callback returns
\* Action::Continue, whatever the learner's state and the event's inputs.
C11_AlwaysContinue ==
    (IsRequestEvent(last) \/ IsResponseEvent(last)) => last.ret = "Continue"

\* a response-headers event on a learner that is already notified, read on a
\* connection without mTLS and with an undecodable certificate, continues
C11_Witness ==
    /\ IsResponseEvent(last) /\ last.ret = "Continue"
    /\ last.props.mtls = None /\ last.props.cert = Some(Bad_ff)
    /\ last.edge = None /\ http[last.ctx].notified

\* property values beyond those the events of Next carry: a second
\* certificate and a second cluster name
WideProps ==
    [mtls : MtlsProps,
     cert : CertProps \cup {Some(Str_e)},
     cluster : ClusterProps \cup {Some(Str_v)}]

\* C12: once a stream's edge has been emitted, a response-headers event with
\* any property values and any end_of_stream leaves the learner and the
\* response header map as they are and emits nothing.
C12_FirstResolutionWins ==
    \A c \in DOMAIN http :
        learned[c] # <<>> =>
            \A props \in WideProps, eos \in BOOLEAN :
                on_http_response_headers(http[c], props, response[c], eos)
                  = [self |-> http[c], headers |-> response[c], logs |-> <<>>,
                     edge |-> None, action |-> "Continue"]

\* the edge "dé -> u" was emitted; a final frame on which both properties
\* now read differently has been delivered and the edge is still the only one
C12_Witness ==
    /\ IsResponseEvent(last) /\ last.end_of_stream /\ last.edge = None
    /\ last.props.cert = Some(Bad_ff) /\ last.props.cluster = Some(Bad_trunc)
    /\ learned[last.ctx] = <<Rendered(Str_d, Str_u)>>
    /\ http[last.ctx].downstream_peer_certificate = Some(Str_d)
    /\ http[last.ctx].upstream_cluster = Some(Str_u)

\* C13: create_http_context yields a learner with the root's current
\* configuration (the one parsed from the last payload that parsed, else the
\* default) and every other field empty; the root and the learners that
\* already exist are unchanged.
C13_CreateCopiesConfig ==
    [][last'.op = "create_http_context"
        => LET c == last'.ctx
           IN  /\ c = Len(http) + 1 /\ Len(http') = c
               /\ http'[c] = [notified |-> FALSE, path |-> <<>>, authority |-> <<>>,
                              upstream_cluster |-> <<>>,
                              downstream_peer_certificate |-> <<>>,
                              config |-> root.config]
               /\ root.config = accepted
               /\ root' = root
               /\ \A k \in DOMAIN http : http'[k] = http[k]
               /\ learned'[c] = <<>> /\ added'[c] = <<>>]_vars

\* a second learner is created after a header name was configured and
\* carries that name
C13_Witness ==
    /\ last.op = "create_http_context" /\ last.ctx = 2
    /\ http[2].config.response_header = Some(HeaderName)
    /\ ~http[2].notified /\ http[2].authority = None

\* C14: a learner's configuration never changes after creation; on_configure
\* changes no learner and no stream; a header callback on one stream changes
\* neither the root nor any other stream, and the header it adds carries the
\* name its learner was created with.
C14_ConfigFixedAtCreation ==
    [][/\ \A c \in DOMAIN http : http'[c].config = http[c].config
       /\ IsConfigure(last')
            => (http' = http /\ response' = response /\ learned' = learned
                /\ added' = added)
       /\ (IsRequestEvent(last') \/ IsResponseEvent(last'))
            => /\ root' = root
               /\ \A k \in DOMAIN http \ {last'.ctx} :
                    /\ http'[k] = http[k]
                    /\ response'[k] = response[k]
                    /\ learned'[k] = learned[k]
                    /\ added'[k] = added[k]
       /\ (Emitted(last') /\ last'.ctx \in DOMAIN http)
            => \A i \in DOMAIN added'[last'.ctx] :
                 added'[last'.ctx][i][1] = unwrap(http[last'.ctx].config.response_header)]_vars

\* a learner created while a header name was configured publishes under that
\* name although the root has since been configured without one
C14_Witness ==
    /\ Emitted(last)
    /\ root.config = DefaultConfig
    /\ http[last.ctx].config.response_header = Some(HeaderName)
    /\ added[last.ctx] = << <<HeaderName, unwrap(last.edge)>> >>

\* C15 as claimed: after a final request-headers event a field whose header
\* was absent is unset.
C15_AbsentHeaderLeavesUnset ==
    (IsRequestEvent(last) /\ last.end_of_stream)
        => /\ last.headers.authority = None => http[last.ctx].authority = None
           /\ last.headers.path = None => http[last.ctx].path = None

\* C15 amended: a request-headers event with end_of_stream = false changes
\* nothing; with end_of_stream = true it sets authority and path to the
\* header values that are present and leaves a field whose header is absent
\* as it was; it never changes the other fields, adds no response header and
\* emits nothing.
C15_RequestHeadersEffect ==
    [][(IsRequestEvent(last') /\ last'.ctx \in DOMAIN http)
        => LET c == last'.ctx
               h == last'.headers
               old == http[c]
           IN  /\ ~last'.end_of_stream => http'[c] = old
               /\ last'.end_of_stream =>
                    http'[c] = [notified |-> old.notified,
                                path |-> IF h.path = <<>> THEN old.path ELSE h.path,
                                authority |-> IF h.authority = <<>> THEN old.authority
                                              ELSE h.authority,
                                upstream_cluster |-> old.upstream_cluster,
                                downstream_peer_certificate |->
                                    old.downstream_peer_certificate,
                                config |-> old.config]
               /\ response' = response /\ added' = added /\ learned' = learned
               /\ last'.edge = None]_vars

\* a final request-headers event without :authority on a learner that had
\* captured one: the authority is kept, the path is taken from the event
C15_Witness ==
    /\ IsRequestEvent(last) /\ last.end_of_stream
    /\ last.headers.authority = None /\ last.headers.path = Some(Str_slash)
    /\ http[last.ctx].authority = Some(Str_a)
    /\ http[last.ctx].path = Some(Str_slash)

\* the upstream side of the edge reads "?"
UpstreamReadsUnknown(c, edge) ==
    edge = Rendered(Side(http[c].downstream_peer_certificate), <<63>>)

\* C16 as claimed: the upstream side of an emitted edge is the cluster name
\* read in the emitting event, "?" when that is absent or undecodable, and
\* an edge whose upstream side is "?" is emitted only with end_of_stream.
C16_UnknownUpstreamOnlyAtFinal ==
    Emitted(last)
        => /\ unwrap(last.edge)
                = Rendered(Side(http[last.ctx].downstream_peer_certificate),
                           IF ValidText(last.props.cluster)
                           THEN last.props.cluster[1] ELSE <<63>>)
           /\ UpstreamReadsUnknown(last.ctx, unwrap(last.edge)) => last.end_of_stream

\* C16 amended: the upstream side of an emitted edge is the cluster name
\* read in the emitting event, "?" when that is absent or undecodable, and an
\* edge whose cluster name was absent or undecodable in the emitting event
\* is emitted only with end_of_stream.
C16_UnresolvedUpstreamOnlyAtFinal ==
    Emitted(last)
        => /\ unwrap(last.edge)
                = Rendered(Side(http[last.ctx].downstream_peer_certificate),
                           IF ValidText(last.props.cluster)
                           THEN last.props.cluster[1] ELSE <<63>>)
           /\ ~ValidText(last.props.cluster) => last.end_of_stream

\* a cluster named "?" resolves on a non-final frame: the edge "dé -> ?"
\* is emitted before the end of the header block
C16_Witness ==
    /\ Emitted(last) /\ ~last.end_of_stream
    /\ last.props.cluster = Some(<<63>>)
    /\ last.edge = Some(Rendered(Str_d, <<63>>))

\* the property is exactly one non-zero byte
SingleNonZeroByte(prop) == prop \in {Some(<<1>>), Some(<<7>>)}
MtlsWarning == [level |-> "warn", msg |-> "connection not mTLS"]
\* the log without the mTLS warning, which is always its first entry
WithoutMtlsWarning(logs) ==
    IF logs # <<>> /\ logs[1] = MtlsWarning THEN Tail(logs) ELSE logs

\* C17: a response-headers event delivered with any other value of
\* connection.mtls, from the same state and with the same other inputs, ends
\* in the same learner, the same response headers, the same emitted edge and
\* the same action; only the "connection not mTLS" warning differs, logged
\* iff the learner was not notified and the value is not one non-zero byte.
\* Two runs of one event sequence that differ only in connection.mtls
\* therefore pass through the same states.
C17_MtlsOnlyWarns ==
    [][(IsResponseEvent(last') /\ last'.ctx \in DOMAIN http)
        => \A m \in AllMtls \ {last'.props.mtls} :
             LET c == last'.ctx
                 warned == ~http[c].notified /\ ~SingleNonZeroByte(m)
             IN  on_http_response_headers(
                     http[c], [last'.props EXCEPT !.mtls = m], response[c],
                     last'.end_of_stream)
                   = [self |-> http'[c],
                      headers |-> response'[c],
                      logs |-> (IF warned THEN <<MtlsWarning>> ELSE <<>>)
                               \o WithoutMtlsWarning(last'.logs),
                      edge |-> last'.edge,
                      action |-> last'.ret]]_vars

\* on a connection whose mtls property is two bytes the warning is logged
\* and the certificate read in the same event is still the edge's downstream
\* side, published under the configured header
C17_Witness ==
    /\ Emitted(last) /\ last.props.mtls = Some(<<1, 1>>)
    /\ last.logs[1] = MtlsWarning
    /\ added[last.ctx] = << <<HeaderName, unwrap(last.edge)>> >>
    /\ last.props.cert = Some(Str_d)
    /\ last.edge = Some(Rendered(Str_d, Str_u))

\* C18: a response-headers event delivered to the same learner with any
\* other captured authority and path (also none) emits or not alike, with
\* the same edge and the same response headers, and differs in the learner
\* only in those two fields; a request-headers event changes nothing but
\* those two fields.  Two runs that differ only in request headers or
\* request-headers events therefore emit the same edge at the same event.
C18_RequestHeadersIrrelevant ==
    [][/\ (IsResponseEvent(last') /\ last'.ctx \in DOMAIN http)
            => \A hdrs \in RequestHeaders :
                 LET c == last'.ctx
                     other == [http[c] EXCEPT !.authority = hdrs.authority,
                                              !.path = hdrs.path]
                 IN  on_http_response_headers(
                         other, last'.props, response[c], last'.end_of_stream)
                       = [self |-> [http'[c] EXCEPT !.authority = hdrs.authority,
                                                    !.path = hdrs.path],
                          headers |-> response'[c],
                          logs |-> last'.logs,
                          edge |-> last'.edge,
                          action |-> last'.ret]
       /\ (IsRequestEvent(last') /\ last'.ctx \in DOMAIN http)
            => LET c == last'.ctx
               IN  /\ [http'[c] EXCEPT !.authority = <<>>, !.path = <<>>]
                        = [http[c] EXCEPT !.authority = <<>>, !.path = <<>>]
                   /\ response' = response /\ learned' = learned
                   /\ added' = added]_vars

\* authority and path were captured, no certificate was read: the edge's
\* downstream side is "?", not the authority
C18_Witness ==
    /\ Emitted(last)
    /\ http[last.ctx].authority = Some(Str_a)
    /\ http[last.ctx].path = Some(Str_slash)
    /\ last.edge = Some(Rendered(<<63>>, Str_u))

\* C19: between events a learner that is not notified has no upstream
\* cluster stored, and notified never returns from true to false.
C19_UpstreamOnlyWhenNotified ==
    [][\A c \in DOMAIN http' :
          /\ ~http'[c].notified => http'[c].upstream_cluster = <<>>
          /\ (c \in DOMAIN http /\ http[c].notified) => http'[c].notified]_vars

\* a response-headers event stored the peer certificate without emitting:
\* downstream_peer_certificate is set while notified is false
C19_Witness ==
    /\ IsResponseEvent(last) /\ last.edge = None
    /\ ~http[last.ctx].notified
    /\ http[last.ctx].downstream_peer_certificate = Some(Str_d)
    /\ http[last.ctx].upstream_cluster = None

====
